---- MODULE Spec2Model ----
(***************************************************************************)
(* Static analysis pass of the Decaf compiler (p3-analysis.c).             *)
(*                                                                         *)
(* analyze(tree) registers the AnalysisVisitor_* callbacks and runs one    *)
(* depth-first traversal.  The model walks a tree that is produced node by *)
(* node while it is walked: every pre-visit step draws the next node (its  *)
(* kind and its fields) from the menus below, runs the registered callback *)
(* on it and pushes it on the traversal stack; every post-visit step runs  *)
(* the registered post callback of the node on top of the stack and pops   *)
(* it.  Scope-introducing nodes draw their declarations when they are      *)
(* entered, so that their symbol table (built by the previous compiler     *)
(* phase) is complete before any of their descendants is visited.          *)
(***************************************************************************)
EXTENDS Integers, Sequences, FiniteSets, TLC

(***************************************************************************)
(* Bounds of the exploration.                                              *)
(***************************************************************************)
\* number of AST nodes of a tree
MaxNodes == 7
\* number of AST nodes of a tree made of control statements only
MaxControlNodes == 10
\* statements of a Block
MaxStmts == 2
\* global variable declarations of a Program
MaxDecls == 2
\* local variable declarations of a Block
MaxLocals == 1
\* function declarations of a Program
MaxFuncs == 2
\* arguments of a FuncCall (parameters of the drawn functions: see ParamMenu)
MaxArgs == 2
\* largest declared array length and largest literal index
MaxLen == 2

(***************************************************************************)
(* Decaf types, operators and node kinds (the enums of the AST library).   *)
(***************************************************************************)
INT == "INT"
BOOL == "BOOL"
VOID == "VOID"
DecafType == {INT, BOOL, VOID}

NEGOP == "NEGOP"
NOTOP == "NOTOP"
UnaryOpType == {NEGOP, NOTOP}

LogicalOps == {"OROP", "ANDOP"}
EqualityOps == {"EQOP", "NEQOP"}
RelationalOps == {"LTOP", "LEOP", "GEOP", "GTOP"}
ArithmeticOps == {"ADDOP", "SUBOP", "MULOP", "DIVOP", "MODOP"}
BinaryOpType == LogicalOps \cup EqualityOps \cup RelationalOps \cup ArithmeticOps

\* the value of an attribute that was never set
UNSET == "UNSET"

(***************************************************************************)
(* Menus the nodes of a tree are drawn from.                               *)
(***************************************************************************)
\* names of variables and parameters; "f" is also a function name
LocationNames == {"a"}
CallNames == {"f"}
\* declared array lengths
ArrayLengths == {-1, 0, MaxLen}
\* integer literals used as an index
IndexValues == (-1) .. MaxLen
\* binary operators drawn for BinaryOp nodes
BinaryOpMenu == {"ANDOP", "EQOP", "LTOP", "ADDOP"}

Parameter(name, type) == [name |-> name, type |-> type]

\* parameter lists of the drawn functions
ParamMenu ==
    { <<>>,
      <<Parameter("a", INT)>>,
      <<Parameter("a", INT), Parameter("f", BOOL)>> }

\* a declaration as the parser records it: vardecl.{name,type,is_array,
\* array_length} or funcdecl.{name,return_type,parameters}
Decl(name, type, is_array, len, params) ==
    [name |-> name, type |-> type, is_array |-> is_array,
     array_length |-> len, parameters |-> params]

NoDecl == Decl("", VOID, FALSE, 1, <<>>)

\* variables: scalars "a" of every type, arrays "a" of every drawn length,
\* and a variable that carries the name of the function "f"
VarDeclMenu ==
    { Decl("a", t, FALSE, 1, <<>>) : t \in {INT, VOID} }
      \cup { Decl("a", INT, TRUE, l, <<>>) : l \in ArrayLengths }
      \cup { Decl("f", BOOL, FALSE, 1, <<>>) }

\* functions: "main" and "f", with and without parameters
FuncDeclMenu ==
    { Decl("main", t, FALSE, 1, <<>>) : t \in {INT, VOID} }
      \cup { Decl("main", INT, FALSE, 1, <<Parameter("a", INT)>>) }
      \cup { Decl("f", INT, FALSE, 1, p) : p \in ParamMenu }

SeqsUpTo(S, k) == UNION { [1 .. m -> S] : m \in 0 .. k }

(***************************************************************************)
(* State.                                                                  *)
(***************************************************************************)
VARIABLES
    input,          \* the argument of analyze: see Inputs
    pc,             \* "call", "walk", "done" (analyze returned), "crashed"
    tree,           \* the AST nodes visited so far, by node id
    stack,          \* traversal stack: the nodes whose subtree is being visited
    attr,           \* the "type" attribute of every node
    writes,         \* how often the "type" attribute of every node was set
    errors,         \* AnalysisData.errors
    current_func,   \* AnalysisData.current_func ("" is NULL)
    in_while,       \* AnalysisData.in_while
    curr_table,     \* AnalysisData.curr_table: the node owning the table, 0 is NULL
    program_table   \* AnalysisData.program_table: likewise

vars == <<input, pc, tree, stack, attr, writes, errors,
          current_func, in_while, curr_table, program_table>>

data == <<current_func, in_while, curr_table, program_table>>

(***************************************************************************)
(* AST nodes, symbols and symbol tables (the data the pass reads).         *)
(***************************************************************************)
\* An AST node.  name/type/is_array/integer/operator hold the kind-specific
\* fields (vardecl.*, funcdecl.*, location.name, funccall.name, literal.*,
\* binaryop.operator, unaryop.operator); kids lists the children in visiting
\* order; has_table/symbols is the "symbolTable" attribute.  Every node has
\* its own source line, so that a diagnostic names one node.
Node(kind, parent, line, d, op, has_table, symbols) ==
    [kind |-> kind, parent |-> parent, source_line |-> line,
     name |-> d.name, type |-> d.type, is_array |-> d.is_array,
     integer |-> d.array_length, operator |-> op, kids |-> <<>>,
     has_table |-> has_table, symbols |-> symbols]

\* A Symbol: its kind (scalar, array or function), name, type, length (1
\* for a scalar, the declared length for an array) and, for a function, its
\* parameters.
Symbol(symbol_type, name, type, length, params) ==
    [null |-> FALSE, symbol_type |-> symbol_type, name |-> name,
     type |-> type, length |-> length, parameters |-> params]

\* the null Symbol pointer
NULL == [null |-> TRUE, symbol_type |-> "", name |-> "", type |-> VOID,
         length |-> 0, parameters |-> <<>>]

\* the symbols the previous phase records for a variable, a function and a
\* parameter
SymbolOf(d) ==
    IF d.is_array
    THEN Symbol("ARRAY", d.name, d.type, d.array_length, <<>>)
    ELSE Symbol("SCALAR", d.name, d.type, 1, <<>>)

SymbolOfFunction(d) == Symbol("FUNCTION", d.name, d.type, 1, d.parameters)

SymbolOfParameter(p) == Symbol("SCALAR", p.name, p.type, 1, <<>>)

SymbolsOf(decls) == [i \in 1 .. Len(decls) |-> SymbolOf(decls[i])]

SymbolsOfFunctions(decls) ==
    [i \in 1 .. Len(decls) |-> SymbolOfFunction(decls[i])]

\* first symbol of a local collection with the given name, or NULL
RECURSIVE SymbolTable_local(_, _)
SymbolTable_local(symbols, name) ==
    IF symbols = <<>> THEN NULL
    ELSE IF Head(symbols).name = name THEN Head(symbols)
    ELSE SymbolTable_local(Tail(symbols), name)

\* scoped lookup starting at a node: the nearest enclosing table that
\* declares the name
RECURSIVE lookup_symbol(_, _)
lookup_symbol(node, name) ==
    LET here == IF node.has_table THEN SymbolTable_local(node.symbols, name)
                ELSE NULL
    IN  IF here # NULL THEN here
        ELSE IF node.parent = 0 THEN NULL
        ELSE lookup_symbol(tree[node.parent], name)

(***************************************************************************)
(* Diagnostics.                                                            *)
(***************************************************************************)
\* One entry of the ErrorList: the message, the line, name and number it
\* prints (0 and "" when the message prints none) and the types it prints;
\* node is the node whose callback appended it.
Err(msg, line, name, val, types, node) ==
    [msg |-> msg, line |-> line, name |-> name, val |-> val,
     types |-> types, node |-> node]

ErrorList_printf(e) == errors' = Append(errors, e)

NoError == UNCHANGED errors

(***************************************************************************)
(* Traversal engine: NodeVisitor_traverse.                                 *)
(***************************************************************************)
Slot(s, d) == [s |-> s, d |-> d]
Expr == Slot("expr", NoDecl)
Index == Slot("index", NoDecl)
Loc == Slot("loc", NoDecl)
Body == Slot("block", NoDecl)
Stmts == Slot("stmts", NoDecl)

VarDeclSlots(decls) == [i \in 1 .. Len(decls) |-> Slot("vardecl", decls[i])]
FuncDeclSlots(decls) == [i \in 1 .. Len(decls) |-> Slot("funcdecl", decls[i])]
ExprSlots(k) == [i \in 1 .. k |-> Expr]

\* the fewest nodes a child slot still needs
SlotWeight(slot) ==
    CASE slot.s = "stmts" -> 0
      [] slot.s = "funcdecl" -> 2
      [] OTHER -> 1

RECURSIVE Weight(_)
Weight(todo) ==
    IF todo = <<>> THEN 0 ELSE SlotWeight(Head(todo)) + Weight(Tail(todo))

RECURSIVE Owed(_)
Owed(frames) ==
    IF frames = <<>> THEN 0 ELSE Weight(Head(frames).todo) + Owed(Tail(frames))

Walking == pc = "walk" /\ stack # <<>>
Top == stack[Len(stack)]
NewId == Len(tree) + 1

\* the statements visited so far in the Block on top
Statements == Len(tree[Top.node].kids) - Len(tree[Top.node].symbols)

\* the Block on top takes another statement
AwaitsStmt ==
    /\ Walking
    /\ Top.todo # <<>>
    /\ Head(Top.todo).s = "stmts"
    /\ Statements < MaxStmts

\* the top node waits for a child of slot kind s
Awaits(s) == Walking /\ Top.todo # <<>> /\ Head(Top.todo).s = s

\* every child of the top node of the given kind has been visited
Finished(kind) ==
    /\ Walking
    /\ tree[Top.node].kind = kind
    /\ \A i \in 1 .. Len(Top.todo) : Top.todo[i].s = "stmts"
    /\ input.first.done =>
          Len(tree[Top.node].kids) = Len(input.first.tree[Top.node].kids)

\* a child with the given pending slots fits the node budget
Fits(todo) ==
    Len(tree) + 1 + Owed(stack) - SlotWeight(Head(Top.todo)) + Weight(todo)
        <= input.nodes

Consumed ==
    [stack EXCEPT ![Len(stack)].todo =
        IF Head(@).s = "stmts" THEN @ ELSE Tail(@)]

Linked(node) ==
    Append([tree EXCEPT ![Top.node].kids = Append(@, NewId)], node)

\* On a tree that an earlier call has walked, the next node in visiting order
\* is the node that call met there, with as many children.
SameTree(node, todo) ==
    input.first.done =>
        /\ NewId \in DOMAIN input.first.tree
        /\ node = [input.first.tree[NewId] EXCEPT !.kids = <<>>]
        /\ LET given == Len(input.first.tree[NewId].kids)
               fixed == Cardinality({ i \in DOMAIN todo : todo[i].s # "stmts" })
           IN  IF fixed = Len(todo) THEN given = fixed ELSE given >= fixed

\* visit a child and descend into it
Enter(node, todo) ==
    /\ SameTree(node, todo)
    /\ tree' = Linked(node)
    /\ stack' = Append(Consumed, [node |-> NewId, todo |-> todo])
    /\ UNCHANGED <<input, pc>>

\* visit a child that has no children
EnterLeaf(node) ==
    /\ SameTree(node, <<>>)
    /\ tree' = Linked(node)
    /\ stack' = Consumed
    /\ UNCHANGED <<input, pc>>

\* the subtree of the top node is done; analyze returns after the root
Leave ==
    /\ stack' = SubSeq(stack, 1, Len(stack) - 1)
    /\ pc' = IF Len(stack) = 1 THEN "done" ELSE "walk"
    /\ UNCHANGED <<input, tree>>

\* SET_INFERRED_TYPE on the node being entered
SET_INFERRED_TYPE(T) ==
    /\ attr' = Append(attr, T)
    /\ writes' = Append(writes, 1)

\* a node entered without its "type" attribute being set
NoType ==
    /\ attr' = Append(attr, UNSET)
    /\ writes' = Append(writes, 0)

GET_INFERRED_TYPE(n) == attr[n]

\* the process dies (a null pointer is dereferenced)
Crash ==
    /\ pc' = "crashed"
    /\ UNCHANGED <<input, tree, stack, attr, writes, errors, data>>

(***************************************************************************)
(* Helper of the pass.                                                     *)
(***************************************************************************)
\* the symbols of a collection that carry the given name
RECURSIVE Occurrences(_, _)
Occurrences(symbols, name) ==
    IF symbols = <<>> THEN 0
    ELSE (IF Head(symbols).name = name THEN 1 ELSE 0)
            + Occurrences(Tail(symbols), name)

\* CURR_TABLE->local_symbols
CurrentSymbols == tree[curr_table].symbols

\* check_for_duplicates: dup counts the symbols of the current table with the
\* given name; more than one is reported on the line of the visited node
check_for_duplicates(symbols, line, name, node) ==
    LET dup == Occurrences(symbols, name)
    IN  IF dup > 1
        THEN ErrorList_printf(Err("Duplicate symbol", line, name, 0, <<>>, node))
        ELSE NoError

(***************************************************************************)
(* analyze: the entry point.                                               *)
(***************************************************************************)
\* The argument of analyze: a null pointer, or a tree.  Of a tree, the
\* declarations of its Program node (the global variables and the functions,
\* in source order) and its size are fixed before the walk; everything below
\* the Program node is drawn while it is walked.
\* first records an earlier call of analyze on the same tree: the tree as
\* that call walked it, the attributes it left on the nodes and the
\* diagnostics it returned.
NoRun == [done |-> FALSE, tree |-> <<>>, attr |-> <<>>, errors |-> <<>>]

TreeInput(variables, functions, nodes) ==
    [null |-> FALSE, variables |-> variables, functions |-> functions,
     nodes |-> nodes, first |-> NoRun]

NullInput ==
    [null |-> TRUE, variables |-> <<>>, functions |-> <<>>, nodes |-> 0,
     first |-> NoRun]

Inputs ==
    {NullInput}
      \cup { TreeInput(v, f, MaxNodes) :
                v \in SeqsUpTo(VarDeclMenu, MaxDecls),
                f \in SeqsUpTo(FuncDeclMenu, MaxFuncs) }

\* the state after AnalysisData_new
Start ==
    /\ pc = "call"
    /\ tree = <<>>
    /\ stack = <<>>
    /\ attr = <<>>
    /\ writes = <<>>
    /\ errors = <<>>
    /\ current_func = ""
    /\ in_while = FALSE
    /\ curr_table = 0
    /\ program_table = 0

Init ==
    /\ input \in { i \in Inputs :
                     1 + Len(i.variables) + 2 * Len(i.functions) <= MaxNodes }
    /\ Start

\* analyze without the null check: the traversal of no tree visits nothing
analyze_null_tree_unchecked ==
    /\ pc = "call"
    /\ input.null
    /\ NoError
    /\ pc' = "done"
    /\ UNCHANGED <<input, tree, stack, attr, writes, data>>

\* analyze with tree == NULL: one diagnostic, no traversal
analyze_null_tree ==
    /\ pc = "call"
    /\ input.null
    /\ ErrorList_printf(Err("Null tree", 0, "", 0, <<>>, 0))
    /\ pc' = "done"
    /\ UNCHANGED <<input, tree, stack, attr, writes, data>>

(***************************************************************************)
(* Program, VarDecl, FuncDecl, Block.                                      *)
(***************************************************************************)
AnalysisVisitor_pre_program(id) ==
    /\ curr_table' = id
    /\ program_table' = id
    /\ UNCHANGED <<current_func, in_while>>
    /\ NoError
    /\ NoType

\* analyze with a tree: the traversal starts at the Program node, whose
\* table holds the global variables and the functions
previsit_program ==
    /\ pc = "call"
    /\ ~input.null
    /\ tree' = <<Node("Program", 0, 1, NoDecl, "", TRUE,
                      SymbolsOf(input.variables)
                        \o SymbolsOfFunctions(input.functions))>>
    /\ stack' = <<[node |-> 1,
                   todo |-> VarDeclSlots(input.variables)
                              \o FuncDeclSlots(input.functions)]>>
    /\ pc' = "walk"
    /\ AnalysisVisitor_pre_program(1)
    /\ UNCHANGED input

\* a main check that looks for the symbol only
AnalysisVisitor_check_main_presence(node) ==
    LET sym == lookup_symbol(node, "main")
    IN  /\ IF sym = NULL
           THEN ErrorList_printf(
                    Err("Program does not contain a main function",
                        0, "", 0, <<>>, 1))
           ELSE NoError
        /\ UNCHANGED <<attr, writes, data>>

\* AnalysisVisitor_check_main, the post-visit callback of Program
AnalysisVisitor_check_main(node) ==
    LET sym == lookup_symbol(node, "main")
    IN  /\ IF sym = NULL
           THEN ErrorList_printf(
                    Err("Program does not contain a main function",
                        0, "", 0, <<>>, 1))
           ELSE IF sym.parameters # <<>>
           THEN ErrorList_printf(
                    Err("Main method should not have any parameters",
                        node.source_line, "", 0, <<>>, 1))
           ELSE NoError
        /\ UNCHANGED <<attr, writes, data>>

postvisit_program ==
    /\ Finished("Program")
    /\ AnalysisVisitor_check_main(tree[Top.node])
    /\ Leave

\* a pre-visit callback of VarDecl without the check of the declared type
AnalysisVisitor_pre_vardecl_any_type(node, id) ==
    /\ errors' = errors
         \o (IF node.name = "main"
             THEN <<Err("Invalid variable name", node.source_line, node.name,
                        0, <<>>, id)>>
             ELSE <<>>)
         \o (IF node.is_array /\ node.integer < 0
             THEN <<Err("Invalid array declaration", 0, "", node.integer,
                        <<>>, id)>>
             ELSE <<>>)
    /\ SET_INFERRED_TYPE(node.type)
    /\ UNCHANGED data

\* AnalysisVisitor_pre_vardecl: three checks, then the inferred type
AnalysisVisitor_pre_vardecl(node, id) ==
    /\ errors' = errors
         \o (IF node.type = VOID
             THEN <<Err("Void variable", node.source_line, node.name, 0,
                        <<>>, id)>>
             ELSE <<>>)
         \o (IF node.name = "main"
             THEN <<Err("Invalid variable name", node.source_line, node.name,
                        0, <<>>, id)>>
             ELSE <<>>)
         \o (IF node.is_array /\ node.integer < 0
             THEN <<Err("Invalid array declaration", 0, "", node.integer,
                        <<>>, id)>>
             ELSE <<>>)
    /\ SET_INFERRED_TYPE(node.type)
    /\ UNCHANGED data

previsit_vardecl ==
    /\ Awaits("vardecl")
    /\ LET node == Node("VarDecl", Top.node, NewId, Head(Top.todo).d, "",
                        FALSE, <<>>)
       IN  /\ Enter(node, <<>>)
           /\ AnalysisVisitor_pre_vardecl(node, NewId)

AnalysisVisitor_post_vardecl(node, id) ==
    /\ check_for_duplicates(CurrentSymbols, node.source_line, node.name, id)
    /\ UNCHANGED <<attr, writes, data>>

postvisit_vardecl ==
    /\ Finished("VarDecl")
    /\ AnalysisVisitor_post_vardecl(tree[Top.node], Top.node)
    /\ Leave

\* AnalysisVisitor_pre_funcdecl: the duplicate check runs before the current
\* table becomes the table of the function
AnalysisVisitor_pre_funcdecl(node, id) ==
    /\ current_func' = node.name
    /\ SET_INFERRED_TYPE(node.type)
    /\ check_for_duplicates(CurrentSymbols, node.source_line, node.name, id)
    /\ curr_table' = id
    /\ UNCHANGED <<in_while, program_table>>

\* the table of a FuncDecl holds its parameters; its one child is the body
previsit_funcdecl ==
    /\ Awaits("funcdecl")
    /\ LET d == Head(Top.todo).d
           node == Node("FuncDecl", Top.node, NewId, d, "", TRUE,
                        [i \in 1 .. Len(d.parameters) |->
                            SymbolOfParameter(d.parameters[i])])
       IN  /\ Enter(node, <<Body>>)
           /\ AnalysisVisitor_pre_funcdecl(node, NewId)

AnalysisVisitor_post_funcdecl(node, id) ==
    /\ current_func' = ""
    /\ curr_table' = program_table
    /\ UNCHANGED <<in_while, program_table>>
    /\ NoError
    /\ UNCHANGED <<attr, writes>>

postvisit_funcdecl ==
    /\ Finished("FuncDecl")
    /\ AnalysisVisitor_post_funcdecl(tree[Top.node], Top.node)
    /\ Leave

AnalysisVisitor_pre_block(node, id) ==
    /\ curr_table' = id
    /\ UNCHANGED <<current_func, in_while, program_table>>
    /\ NoError
    /\ NoType

\* the table of a Block holds its local variables, which are visited before
\* its statements
previsit_block ==
    /\ Awaits("block")
    /\ \E variables \in SeqsUpTo(VarDeclMenu, MaxLocals) :
          LET todo == VarDeclSlots(variables) \o <<Stmts>>
              node == Node("Block", Top.node, NewId, NoDecl, "", TRUE,
                           SymbolsOf(variables))
          IN  /\ Fits(todo)
              /\ Enter(node, todo)
              /\ AnalysisVisitor_pre_block(node, NewId)

\* no post-visit callback is registered for Block
postvisit_block ==
    /\ Finished("Block")
    /\ Leave
    /\ UNCHANGED <<attr, writes, errors, data>>

(***************************************************************************)
(* Statements.                                                             *)
(***************************************************************************)
\* a node without declaration fields
Plain(kind, name, type, integer, op) ==
    Node(kind, Top.node, NewId, Decl(name, type, FALSE, integer, <<>>), op,
         FALSE, <<>>)

\* a pre-visit callback of WhileLoop that does not record the loop
AnalysisVisitor_pre_while_unrecorded(node, id) ==
    /\ UNCHANGED <<in_while, current_func, curr_table, program_table>>
    /\ SET_INFERRED_TYPE(BOOL)
    /\ NoError

AnalysisVisitor_pre_while(node, id) ==
    /\ in_while' = TRUE
    /\ SET_INFERRED_TYPE(BOOL)
    /\ UNCHANGED <<current_func, curr_table, program_table>>
    /\ NoError

previsit_whileloop ==
    /\ AwaitsStmt
    /\ Fits(<<Expr, Body>>)
    /\ LET node == Plain("WhileLoop", "", VOID, 0, "")
       IN  /\ Enter(node, <<Expr, Body>>)
           /\ AnalysisVisitor_pre_while(node, NewId)

\* AnalysisVisitor_post_while is defined by the pass
AnalysisVisitor_post_while(node, id) ==
    /\ in_while' = FALSE
    /\ UNCHANGED <<current_func, curr_table, program_table>>
    /\ NoError
    /\ UNCHANGED <<attr, writes>>

\* the callbacks analyze registers for WhileLoop: the pre-visit one only, so
\* nothing runs when a WhileLoop is left
postvisit_whileloop ==
    /\ Finished("WhileLoop")
    /\ Leave
    /\ UNCHANGED <<attr, writes, errors, data>>

AnalysisVisitor_pre_conditional(node, id) ==
    /\ SET_INFERRED_TYPE(BOOL)
    /\ UNCHANGED data
    /\ NoError

previsit_conditional ==
    /\ AwaitsStmt
    /\ \E todo \in {<<Expr, Body>>, <<Expr, Body, Body>>} :
          LET node == Plain("Conditional", "", VOID, 0, "")
          IN  /\ Fits(todo)
              /\ Enter(node, todo)
              /\ AnalysisVisitor_pre_conditional(node, NewId)

AnalysisVisitor_post_conditional(node, id) ==
    LET val == node.kids[1]
    IN  /\ IF GET_INFERRED_TYPE(id) # GET_INFERRED_TYPE(val)
           THEN ErrorList_printf(
                    Err("Invalid condition", node.source_line, "", 0,
                        <<GET_INFERRED_TYPE(id), GET_INFERRED_TYPE(val)>>, id))
           ELSE NoError
        /\ UNCHANGED <<attr, writes, data>>

postvisit_conditional ==
    /\ Finished("Conditional")
    /\ AnalysisVisitor_post_conditional(tree[Top.node], Top.node)
    /\ Leave

AnalysisVisitor_check_break(node, id) ==
    /\ IF ~in_while
       THEN ErrorList_printf(
                Err("Invalid break", node.source_line, "", 0, <<>>, id))
       ELSE NoError
    /\ UNCHANGED data
    /\ NoType

\* Break and Continue have no children and no post-visit callback
previsit_break ==
    /\ AwaitsStmt
    /\ Fits(<<>>)
    /\ LET node == Plain("Break", "", VOID, 0, "")
       IN  /\ EnterLeaf(node)
           /\ AnalysisVisitor_check_break(node, NewId)

AnalysisVisitor_check_continue(node, id) ==
    /\ IF ~in_while
       THEN ErrorList_printf(
                Err("Invalid continue", node.source_line, "", 0, <<>>, id))
       ELSE NoError
    /\ UNCHANGED data
    /\ NoType

previsit_continue ==
    /\ AwaitsStmt
    /\ Fits(<<>>)
    /\ LET node == Plain("Continue", "", VOID, 0, "")
       IN  /\ EnterLeaf(node)
           /\ AnalysisVisitor_check_continue(node, NewId)

AnalysisVisitor_pre_return(node, id) ==
    LET func == lookup_symbol(node, current_func)
    IN  /\ IF func = NULL
           THEN SET_INFERRED_TYPE(VOID)
           ELSE SET_INFERRED_TYPE(func.type)
        /\ UNCHANGED data
        /\ NoError

\* funcreturn.value is optional
previsit_return ==
    /\ AwaitsStmt
    /\ \E todo \in {<<>>, <<Expr>>} :
          LET node == Plain("Return", "", VOID, 0, "")
          IN  /\ Fits(todo)
              /\ Enter(node, todo)
              /\ AnalysisVisitor_pre_return(node, NewId)

AnalysisVisitor_post_return(node, id) ==
    LET has_value == node.kids # <<>>
        expected == GET_INFERRED_TYPE(id)
    IN  /\ IF expected # VOID /\ ~has_value
           THEN ErrorList_printf(
                    Err("Return type mismatch", node.source_line, "", 0,
                        <<expected, VOID>>, id))
           ELSE IF has_value /\ GET_INFERRED_TYPE(node.kids[1]) = VOID
           THEN NoError
           ELSE IF has_value /\ expected # GET_INFERRED_TYPE(node.kids[1])
           THEN ErrorList_printf(
                    Err("Return type mismatch", node.source_line, "", 0,
                        <<expected, GET_INFERRED_TYPE(node.kids[1])>>, id))
           ELSE NoError
        /\ UNCHANGED <<attr, writes, data>>

postvisit_return ==
    /\ Finished("Return")
    /\ AnalysisVisitor_post_return(tree[Top.node], Top.node)
    /\ Leave

\* no pre-visit callback is registered for Assignment
previsit_assignment ==
    /\ AwaitsStmt
    /\ Fits(<<Loc, Expr>>)
    /\ Enter(Plain("Assignment", "", VOID, 0, ""), <<Loc, Expr>>)
    /\ NoType
    /\ NoError
    /\ UNCHANGED data

AnalysisVisitor_post_assignment(node, id) ==
    LET loc == node.kids[1]
        val == node.kids[2]
    IN  /\ IF GET_INFERRED_TYPE(loc) # GET_INFERRED_TYPE(val)
           THEN ErrorList_printf(
                    Err("Type mismatch", node.source_line, tree[loc].name, 0,
                        <<GET_INFERRED_TYPE(loc), GET_INFERRED_TYPE(val)>>, id))
           ELSE NoError
        /\ UNCHANGED <<attr, writes, data>>

postvisit_assignment ==
    /\ Finished("Assignment")
    /\ AnalysisVisitor_post_assignment(tree[Top.node], Top.node)
    /\ Leave

(***************************************************************************)
(* Expressions.                                                            *)
(***************************************************************************)
AwaitsExpr == Awaits("expr") \/ Awaits("index")

\* what the bytes of a node that is no integer literal can hold where an
\* integer literal keeps literal.integer; they matter for an index only
IndexBytes == IF Awaits("index") THEN IndexValues ELSE {0}

AnalysisVisitor_pre_funcCall(node, id) ==
    LET func == lookup_symbol(node, node.name)
    IN  /\ IF func = NULL
           THEN SET_INFERRED_TYPE(VOID)
           ELSE SET_INFERRED_TYPE(func.type)
        /\ UNCHANGED data
        /\ NoError

\* a FuncCall is a statement or an expression
previsit_funccall ==
    /\ AwaitsStmt \/ AwaitsExpr
    /\ \E name \in CallNames, nargs \in 0 .. MaxArgs, bytes \in IndexBytes :
          LET node == Plain("FuncCall", name, VOID, bytes, "")
          IN  /\ Fits(ExprSlots(nargs))
              /\ Enter(node, ExprSlots(nargs))
              /\ AnalysisVisitor_pre_funcCall(node, NewId)

\* a post-visit callback of FuncCall that checks the number of arguments too
AnalysisVisitor_post_funcCall_counted(node, id) ==
    LET func == lookup_symbol(node, node.name)
        invalid == Err("Invalid argument type", node.source_line, "", 0,
                       <<>>, id)
    IN  /\ IF func = NULL \/ func.parameters = <<>> \/ node.kids = <<>>
           THEN \/ ErrorList_printf(invalid)
                \/ NoError
           ELSE IF \/ Len(func.parameters) # Len(node.kids)
                   \/ func.parameters[1].type # GET_INFERRED_TYPE(node.kids[1])
           THEN ErrorList_printf(invalid)
           ELSE NoError
        /\ UNCHANGED <<attr, writes, data>>

\* AnalysisVisitor_post_funcCall reads func->parameters->head->type and the
\* type of arguments->head without a null check.  When func, the head of its
\* parameters or the head of the arguments is null, a null pointer is
\* dereferenced: the process dies (see postvisit_funccall) or the comparison
\* reads garbage and goes either way.
AnalysisVisitor_post_funcCall(node, id) ==
    LET func == lookup_symbol(node, node.name)
        invalid == Err("Invalid argument type", node.source_line, "", 0,
                       <<>>, id)
    IN  /\ IF func = NULL \/ func.parameters = <<>> \/ node.kids = <<>>
           THEN \/ ErrorList_printf(invalid)
                \/ NoError
           ELSE IF func.parameters[1].type # GET_INFERRED_TYPE(node.kids[1])
           THEN ErrorList_printf(invalid)
           ELSE NoError
        /\ UNCHANGED <<attr, writes, data>>

\* the null pointer dereferences of AnalysisVisitor_post_funcCall
FuncCallDerefsNull(node) ==
    LET func == lookup_symbol(node, node.name)
    IN  func = NULL \/ func.parameters = <<>> \/ node.kids = <<>>

postvisit_funccall ==
    /\ Finished("FuncCall")
    /\ \/ /\ AnalysisVisitor_post_funcCall(tree[Top.node], Top.node)
          /\ Leave
       \/ /\ FuncCallDerefsNull(tree[Top.node])
          /\ Crash

AnalysisVisitor_pre_location(node, id) ==
    LET loc == lookup_symbol(node, node.name)
    IN  /\ IF loc = NULL
           THEN SET_INFERRED_TYPE(VOID)
           ELSE SET_INFERRED_TYPE(loc.type)
        /\ UNCHANGED data
        /\ NoError

\* a Location is the target of an Assignment or an expression; location.index
\* is optional
previsit_location ==
    /\ Awaits("loc") \/ AwaitsExpr
    /\ \E name \in LocationNames, todo \in {<<>>, <<Index>>},
          bytes \in IndexBytes :
          LET node == Plain("Location", name, VOID, bytes, "")
          IN  /\ Fits(todo)
              /\ Enter(node, todo)
              /\ AnalysisVisitor_pre_location(node, NewId)

\* loc->literal.integer: the integer of an integer literal; for any other
\* index node the union member read is not the one that was written, and the
\* value is whatever the bytes of the node hold there (see IndexBytes)
LiteralInteger(index) == tree[index].integer

\* a bounds check that lets the first index past the end through
AnalysisVisitor_post_location_past_end(node, id) ==
    /\ IF node.kids = <<>>
       THEN LET sym1 == lookup_symbol(node, node.name)
            IN  IF sym1 = NULL
                THEN ErrorList_printf(
                         Err("Symbol undefined", node.source_line, node.name,
                             0, <<>>, id))
                ELSE IF sym1.length > 1
                THEN ErrorList_printf(
                         Err("Invalid array access", node.source_line, "", 0,
                             <<>>, id))
                ELSE NoError
       ELSE LET sym == lookup_symbol(node, node.name)
            IN  LET index == LiteralInteger(node.kids[1])
                IN  IF index < 0
                    THEN ErrorList_printf(
                             Err("Array size is invalid", node.source_line,
                                 node.name, index, <<>>, id))
                    ELSE IF sym = NULL
                    THEN \/ ErrorList_printf(
                                Err("Array access is invalid",
                                    node.source_line, node.name, index,
                                    <<>>, id))
                         \/ NoError
                    ELSE IF index > sym.length
                    THEN ErrorList_printf(
                             Err("Array access is invalid", node.source_line,
                                 node.name, index, <<>>, id))
                    ELSE NoError
    /\ UNCHANGED <<attr, writes, data>>

\* AnalysisVisitor_post_location.  With an index and an unresolved name,
\* sym->length dereferences a null pointer unless the index is negative: the
\* process dies (see postvisit_location) or the comparison reads garbage.
AnalysisVisitor_post_location(node, id) ==
    /\ IF node.kids = <<>>
       THEN LET sym1 == lookup_symbol(node, node.name)
            IN  IF sym1 = NULL
                THEN ErrorList_printf(
                         Err("Symbol undefined", node.source_line, node.name,
                             0, <<>>, id))
                ELSE IF sym1.length > 1
                THEN ErrorList_printf(
                         Err("Invalid array access", node.source_line, "", 0,
                             <<>>, id))
                ELSE NoError
       ELSE LET sym == lookup_symbol(node, node.name)
            IN  LET index == LiteralInteger(node.kids[1])
                IN  IF index < 0
                    THEN ErrorList_printf(
                             Err("Array size is invalid", node.source_line,
                                 node.name, index, <<>>, id))
                    ELSE IF sym = NULL
                    THEN \/ ErrorList_printf(
                                Err("Array access is invalid",
                                    node.source_line, node.name, index,
                                    <<>>, id))
                         \/ NoError
                    ELSE IF index >= sym.length
                    THEN ErrorList_printf(
                             Err("Array access is invalid", node.source_line,
                                 node.name, index, <<>>, id))
                    ELSE NoError
    /\ UNCHANGED <<attr, writes, data>>

\* the null pointer dereference of AnalysisVisitor_post_location
LocationDerefsNull(node) ==
    /\ node.kids # <<>>
    /\ lookup_symbol(node, node.name) = NULL
    /\ LiteralInteger(node.kids[1]) >= 0

postvisit_location ==
    /\ Finished("Location")
    /\ \/ /\ AnalysisVisitor_post_location(tree[Top.node], Top.node)
          /\ Leave
       \/ /\ LocationDerefsNull(tree[Top.node])
          /\ Crash

AnalysisVisitor_pre_literal(node, id) ==
    /\ SET_INFERRED_TYPE(node.type)
    /\ UNCHANGED data
    /\ NoError

\* the literals drawn: true, and the integers; an integer other than 1 is
\* drawn as an index only, and so are the bytes a boolean literal holds
\* beside its value
LiteralMenu ==
    { [type |-> t, integer |-> i] :
        t \in {BOOL, INT}, i \in IF Awaits("index") THEN IndexValues ELSE {1} }

\* a Literal has no children and no post-visit callback
previsit_literal ==
    /\ AwaitsExpr
    /\ Fits(<<>>)
    /\ \E lit \in LiteralMenu :
          LET node == Plain("Literal", "", lit.type, lit.integer, "")
          IN  /\ EnterLeaf(node)
              /\ AnalysisVisitor_pre_literal(node, NewId)

AnalysisVisitor_pre_binop(node, id) ==
    LET op == node.operator
    IN  /\ IF op \in ArithmeticOps
           THEN SET_INFERRED_TYPE(INT)
           ELSE SET_INFERRED_TYPE(BOOL)
        /\ UNCHANGED data
        /\ NoError

previsit_binaryop ==
    /\ AwaitsExpr
    /\ Fits(<<Expr, Expr>>)
    /\ \E op \in BinaryOpMenu, bytes \in IndexBytes :
          LET node == Plain("BinaryOp", "", VOID, bytes, op)
          IN  /\ Enter(node, <<Expr, Expr>>)
              /\ AnalysisVisitor_pre_binop(node, NewId)

\* a post-visit callback of BinaryOp that asks BOOL operands of an equality
AnalysisVisitor_post_binop_bool_equality(node, id) ==
    LET op == node.operator
        left == GET_INFERRED_TYPE(node.kids[1])
        right == GET_INFERRED_TYPE(node.kids[2])
        invalid == Err("Invalid binary operation", node.source_line, op, 0,
                       <<left, right>>, id)
    IN  /\ IF op \in LogicalOps \cup EqualityOps
           THEN IF left # BOOL \/ right # BOOL
                THEN ErrorList_printf(invalid) ELSE NoError
           ELSE IF left # INT \/ right # INT
           THEN ErrorList_printf(invalid)
           ELSE NoError
        /\ UNCHANGED <<attr, writes, data>>

AnalysisVisitor_post_binop(node, id) ==
    LET op == node.operator
        left == GET_INFERRED_TYPE(node.kids[1])
        right == GET_INFERRED_TYPE(node.kids[2])
        invalid == Err("Invalid binary operation", node.source_line, op, 0,
                       <<left, right>>, id)
    IN  /\ IF op \in LogicalOps
           THEN IF left # BOOL \/ right # BOOL
                THEN ErrorList_printf(invalid) ELSE NoError
           ELSE IF op \in EqualityOps
           THEN IF left # right
                THEN ErrorList_printf(invalid) ELSE NoError
           ELSE IF op \in RelationalOps
           THEN IF left # INT \/ right # INT
                THEN ErrorList_printf(invalid) ELSE NoError
           ELSE IF op \in ArithmeticOps
           THEN IF left # INT \/ right # INT
                THEN ErrorList_printf(invalid) ELSE NoError
           ELSE NoError
        /\ UNCHANGED <<attr, writes, data>>

postvisit_binaryop ==
    /\ Finished("BinaryOp")
    /\ AnalysisVisitor_post_binop(tree[Top.node], Top.node)
    /\ Leave

\* AnalysisVisitor_pre_unop: the switch has no break, so case NEGOP sets INT
\* and falls through to case NOTOP, which sets BOOL
AnalysisVisitor_pre_unop(node, id) ==
    /\ IF node.operator = NEGOP
       THEN /\ attr' = Append(attr, BOOL)
            /\ writes' = Append(writes, 2)
       ELSE SET_INFERRED_TYPE(BOOL)
    /\ UNCHANGED data
    /\ NoError

previsit_unaryop ==
    /\ AwaitsExpr
    /\ Fits(<<Expr>>)
    /\ \E op \in UnaryOpType, bytes \in IndexBytes :
          LET node == Plain("UnaryOp", "", VOID, bytes, op)
          IN  /\ Enter(node, <<Expr>>)
              /\ AnalysisVisitor_pre_unop(node, NewId)

AnalysisVisitor_post_unop(node, id) ==
    LET child == node.kids[1]
    IN  /\ IF GET_INFERRED_TYPE(id) # GET_INFERRED_TYPE(child)
           THEN ErrorList_printf(
                    Err("Invalid unary operation", node.source_line,
                        node.operator, 0,
                        <<GET_INFERRED_TYPE(id), GET_INFERRED_TYPE(child)>>,
                        id))
           ELSE NoError
        /\ UNCHANGED <<attr, writes, data>>

postvisit_unaryop ==
    /\ Finished("UnaryOp")
    /\ AnalysisVisitor_post_unop(tree[Top.node], Top.node)
    /\ Leave

(***************************************************************************)
(* The specification.                                                      *)
(***************************************************************************)
Next ==
    \/ analyze_null_tree
    \/ previsit_program
    \/ postvisit_program
    \/ previsit_vardecl
    \/ postvisit_vardecl
    \/ previsit_funcdecl
    \/ postvisit_funcdecl
    \/ previsit_block
    \/ postvisit_block
    \/ previsit_whileloop
    \/ postvisit_whileloop
    \/ previsit_conditional
    \/ postvisit_conditional
    \/ previsit_break
    \/ previsit_continue
    \/ previsit_return
    \/ postvisit_return
    \/ previsit_assignment
    \/ postvisit_assignment
    \/ previsit_funccall
    \/ postvisit_funccall
    \/ previsit_location
    \/ postvisit_location
    \/ previsit_literal
    \/ previsit_binaryop
    \/ postvisit_binaryop
    \/ previsit_unaryop
    \/ postvisit_unaryop

Spec == Init /\ [][Next]_vars

(***************************************************************************)
(* Two calls in a row on the same tree.  analyze allocates its analysis     *)
(* data anew (AnalysisData_new) and walks the tree the first call walked,   *)
(* whose nodes still carry the attributes of that call.                     *)
(***************************************************************************)
analyze_again ==
    /\ pc = "done"
    /\ ~input.first.done
    /\ input' = [input EXCEPT !.first =
                    [done |-> TRUE, tree |-> tree, attr |-> attr,
                     errors |-> errors]]
    /\ pc' = "call"
    /\ tree' = <<>>
    /\ stack' = <<>>
    /\ attr' = <<>>
    /\ writes' = <<>>
    /\ errors' = <<>>
    /\ current_func' = ""
    /\ in_while' = FALSE
    /\ curr_table' = 0
    /\ program_table' = 0

NextTwice == Next \/ analyze_again

\* the trees walked twice: no tree, no function, or the function
\* int f(int a) and what its body holds
InitTwice ==
    /\ input \in { i \in Inputs :
                     /\ i.variables = <<>>
                     /\ Len(i.functions) <= 1
                     /\ \A k \in DOMAIN i.functions :
                           i.functions[k]
                             = Decl("f", INT, FALSE, 1, <<Parameter("a", INT)>>) }
    /\ Start

SpecTwice == InitTwice /\ [][NextTwice]_vars

(***************************************************************************)
(* Trees of control statements: one function main whose body holds         *)
(* WhileLoops, Conditionals, Breaks and Continues with literal conditions. *)
(* The walk is the same; the trees are deeper.                             *)
(***************************************************************************)
InitControl ==
    /\ input = TreeInput(<<>>, <<Decl("main", INT, FALSE, 1, <<>>)>>,
                         MaxControlNodes)
    /\ Start

NextControl ==
    \/ previsit_program
    \/ postvisit_program
    \/ previsit_funcdecl
    \/ postvisit_funcdecl
    \/ previsit_block
    \/ postvisit_block
    \/ previsit_whileloop
    \/ postvisit_whileloop
    \/ previsit_conditional
    \/ postvisit_conditional
    \/ previsit_break
    \/ previsit_continue
    \/ previsit_literal

SpecControl == InitControl /\ [][NextControl]_vars

(***************************************************************************)
(* Vocabulary of the properties.                                           *)
(***************************************************************************)
Nodes == DOMAIN tree

\* the post-visit of the node is over
Visited(n) == n \in Nodes /\ \A i \in DOMAIN stack : stack[i].node # n

RECURSIVE HasAncestor(_, _)
HasAncestor(n, kind) ==
    LET p == tree[n].parent
    IN  IF p = 0 THEN FALSE
        ELSE tree[p].kind = kind \/ HasAncestor(p, kind)

\* the diagnostics with one of the given messages appended for node n
Diagnostics(n, msgs) ==
    { i \in DOMAIN errors : errors[i].node = n /\ errors[i].msg \in msgs }

\* the diagnostics with the given message
Messages(msg) == { i \in DOMAIN errors : errors[i].msg = msg }

BreakMessage(n) ==
    IF tree[n].kind = "Break" THEN "Invalid break" ELSE "Invalid continue"

\* the break/continue diagnostics that carry the line of node n
BreakDiagnostics(n) ==
    { i \in Diagnostics(n, {BreakMessage(n)}) :
        errors[i].line = tree[n].source_line }

\* C1: every Break or Continue node without a WhileLoop ancestor gets exactly
\* one "Invalid break"/"Invalid continue" diagnostic carrying its line,
\* whatever was visited before it (complete WhileLoop subtrees included).
C1_OutsideLoopReportedOnce ==
    \A n \in Nodes :
        (tree[n].kind \in {"Break", "Continue"} /\ ~HasAncestor(n, "WhileLoop"))
            => Cardinality(BreakDiagnostics(n)) = 1

\* C2: a Break or Continue node with a WhileLoop ancestor gets no
\* break/continue diagnostic, whatever lies between it and that ancestor.
C2_InsideLoopNotReported ==
    \A n \in Nodes :
        (tree[n].kind \in {"Break", "Continue"} /\ HasAncestor(n, "WhileLoop"))
            => Diagnostics(n, {"Invalid break", "Invalid continue"}) = {}

\* a Break in the body of an outer loop, behind an inner loop that has ended
C2_Witness ==
    \E n \in Nodes, w \in Nodes :
        /\ tree[n].kind = "Break"
        /\ tree[w].kind = "WhileLoop"
        /\ tree[w].parent = tree[n].parent
        /\ w < n
        /\ HasAncestor(n, "WhileLoop")
        /\ pc = "done"

\* the "Duplicate symbol" diagnostics for a name, on the lines of the
\* declarations of scope s
DuplicateDiagnostics(s, name) ==
    { i \in Messages("Duplicate symbol") :
        /\ errors[i].name = name
        /\ \E k \in DOMAIN tree[s].kids :
              errors[i].line = tree[tree[s].kids[k]].source_line }

\* C3: a scope whose local symbols hold N >= 2 declarations of one name gets
\* exactly N-1 "Duplicate symbol" diagnostics for that name.
C3_DuplicatesReportedButFirst ==
    pc = "done" =>
        \A s \in Nodes :
            tree[s].has_table =>
                \A k \in DOMAIN tree[s].symbols :
                    LET name == tree[s].symbols[k].name
                        N == Occurrences(tree[s].symbols, name)
                    IN  N >= 2 =>
                          Cardinality(DuplicateDiagnostics(s, name)) = N - 1

\* the global symbols named main, and the first of them
Mains == { k \in DOMAIN tree[1].symbols : tree[1].symbols[k].name = "main" }
FirstMain == tree[1].symbols[CHOOSE k \in Mains : \A j \in Mains : k <= j]

NoMainMessages == Messages("Program does not contain a main function")
MainParametersMessages ==
    Messages("Main method should not have any parameters")

\* C4: after the walk of a tree: without a global symbol main, exactly one
\* "no main" diagnostic; with a main that has parameters, exactly one
\* "should not have any parameters" diagnostic and no "no main" diagnostic;
\* with a main without parameters, neither.  (main is the symbol the name
\* resolves to in the global scope.)
C4_MainChecked ==
    (pc = "done" /\ ~input.null) =>
        IF Mains = {}
        THEN /\ Cardinality(NoMainMessages) = 1
             /\ MainParametersMessages = {}
        ELSE IF FirstMain.parameters # <<>>
        THEN /\ Cardinality(MainParametersMessages) = 1
             /\ NoMainMessages = {}
        ELSE /\ MainParametersMessages = {}
             /\ NoMainMessages = {}

\* a walk that ended on a program whose main has a parameter
C4_Witness ==
    /\ pc = "done"
    /\ ~input.null
    /\ Mains # {}
    /\ FirstMain.parameters # <<>>
    /\ Cardinality(MainParametersMessages) = 1

\* an indexed Location whose index is an integer literal and whose name
\* resolves
LiteralIndexed(n) ==
    /\ tree[n].kind = "Location"
    /\ tree[n].kids # <<>>
    /\ tree[tree[n].kids[1]].kind = "Literal"
    /\ tree[tree[n].kids[1]].type = INT
    /\ lookup_symbol(tree[n], tree[n].name) # NULL

IndexOf(n) == tree[tree[n].kids[1]].integer
LengthOf(n) == lookup_symbol(tree[n], tree[n].name).length

IndexDiagnostics(n) ==
    Diagnostics(n, {"Array size is invalid", "Array access is invalid"})

C6_ArrayLengthChecked ==
    \A n \in Nodes :
        (/\ tree[n].kind = "VarDecl"
         /\ tree[n].is_array
         /\ tree[n].integer < 1)
            => Diagnostics(n, {"Invalid array declaration"}) # {}

\* the "Symbol undefined" diagnostics that name node n and its line
UndefinedDiagnostics(n) ==
    { i \in Diagnostics(n, {"Symbol undefined"}) :
        /\ errors[i].name = tree[n].name
        /\ errors[i].line = tree[n].source_line }

\* C7: every Location (indexed or not) and every FuncCall whose name fails
\* the scoped lookup gets a "Symbol undefined" diagnostic naming the symbol
\* and the line.
C7_UndefinedReported ==
    \A n \in Nodes :
        (/\ Visited(n) \/ pc = "crashed"
         /\ tree[n].kind \in {"Location", "FuncCall"}
         /\ lookup_symbol(tree[n], tree[n].name) = NULL)
            => UndefinedDiagnostics(n) # {}

(***************************************************************************)
(* Well-typed programs, by the typing rules of the language (not by the    *)
(* attributes the pass sets).                                              *)
(***************************************************************************)
Resolved(n) == lookup_symbol(tree[n], tree[n].name)

\* the type of an expression node
TypeOf(n) ==
    CASE tree[n].kind = "Literal" -> tree[n].type
      [] tree[n].kind \in {"Location", "FuncCall"} -> Resolved(n).type
      [] tree[n].kind = "BinaryOp" ->
            IF tree[n].operator \in ArithmeticOps THEN INT ELSE BOOL
      [] tree[n].kind = "UnaryOp" ->
            IF tree[n].operator = NEGOP THEN INT ELSE BOOL
      [] OTHER -> VOID

NoDuplicates(symbols) ==
    \A i, j \in DOMAIN symbols : symbols[i].name = symbols[j].name => i = j

RECURSIVE EnclosingFunction(_)
EnclosingFunction(n) ==
    IF tree[n].kind = "FuncDecl" THEN n ELSE EnclosingFunction(tree[n].parent)

Kid(n, i) == tree[n].kids[i]

WellTypedNode(n) ==
    LET node == tree[n]
    IN  CASE node.kind = "Program" ->
                /\ NoDuplicates(node.symbols)
                /\ \E k \in DOMAIN node.symbols :
                      /\ node.symbols[k].name = "main"
                      /\ node.symbols[k].symbol_type = "FUNCTION"
                      /\ node.symbols[k].parameters = <<>>
          [] node.kind \in {"FuncDecl", "Block"} -> NoDuplicates(node.symbols)
          [] node.kind = "VarDecl" ->
                /\ node.type # VOID
                /\ node.name # "main"
                /\ node.is_array => node.integer >= 1
          [] node.kind = "Location" ->
                /\ Resolved(n) # NULL
                /\ IF node.kids = <<>>
                   THEN Resolved(n).symbol_type = "SCALAR"
                   ELSE /\ Resolved(n).symbol_type = "ARRAY"
                        /\ TypeOf(Kid(n, 1)) = INT
                        /\ tree[Kid(n, 1)].kind = "Literal" =>
                              /\ tree[Kid(n, 1)].integer >= 0
                              /\ tree[Kid(n, 1)].integer < Resolved(n).length
          [] node.kind = "FuncCall" ->
                /\ Resolved(n) # NULL
                /\ Resolved(n).symbol_type = "FUNCTION"
                /\ Len(node.kids) = Len(Resolved(n).parameters)
                /\ \A i \in DOMAIN node.kids :
                      TypeOf(Kid(n, i)) = Resolved(n).parameters[i].type
          [] node.kind = "Assignment" ->
                TypeOf(Kid(n, 1)) = TypeOf(Kid(n, 2))
          [] node.kind \in {"Conditional", "WhileLoop"} ->
                TypeOf(Kid(n, 1)) = BOOL
          [] node.kind \in {"Break", "Continue"} -> HasAncestor(n, "WhileLoop")
          [] node.kind = "Return" ->
                LET declared == tree[EnclosingFunction(n)].type
                IN  IF node.kids = <<>> THEN declared = VOID
                    ELSE declared # VOID /\ TypeOf(Kid(n, 1)) = declared
          [] node.kind = "BinaryOp" ->
                IF node.operator \in LogicalOps
                THEN TypeOf(Kid(n, 1)) = BOOL /\ TypeOf(Kid(n, 2)) = BOOL
                ELSE IF node.operator \in EqualityOps
                THEN /\ TypeOf(Kid(n, 1)) = TypeOf(Kid(n, 2))
                     /\ TypeOf(Kid(n, 1)) # VOID
                ELSE TypeOf(Kid(n, 1)) = INT /\ TypeOf(Kid(n, 2)) = INT
          [] node.kind = "UnaryOp" ->
                IF node.operator = NEGOP
                THEN TypeOf(Kid(n, 1)) = INT
                ELSE TypeOf(Kid(n, 1)) = BOOL
          [] OTHER -> TRUE

WellTyped == \A n \in Nodes : WellTypedNode(n)

\* C8: for every well-typed program with a main without parameters and no
\* duplicate, void or out-of-bounds construct, analyze returns an empty
\* diagnostic sequence.
C8_WellTypedIsClean ==
    (pc = "done" /\ ~input.null /\ WellTyped) => errors = <<>>

\* C9: analyze on a null tree returns exactly one diagnostic, "Null tree",
\* and walks nothing: no node is visited, no attribute is set, and the
\* analysis data stay as they were allocated.
C9_NullTree ==
    input.null =>
        /\ pc \in {"call", "done"}
        /\ tree = <<>>
        /\ stack = <<>>
        /\ attr = <<>>
        /\ data = <<"", FALSE, 0, 0>>
        /\ pc = "call" => errors = <<>>
        /\ pc = "done" =>
              /\ Len(errors) = 1
              /\ errors[1].msg = "Null tree"

\* analyze has returned from a call with a null tree
C9_Witness == input.null /\ pc = "done" /\ Len(errors) = 1

\* C10: for every non-null tree, whatever defects it holds, the walk runs to
\* completion: no defect reaches an abort.
C10_NeverAborts == pc # "crashed"

\* the "Invalid condition" diagnostics of a Conditional or WhileLoop
ConditionDiagnostics(n) == Diagnostics(n, {"Invalid condition"})

\* the inferred type of the condition expression of node n
ConditionType(n) == GET_INFERRED_TYPE(Kid(n, 1))

\* C11: a Conditional or WhileLoop gets an "Invalid condition" diagnostic if
\* and only if the inferred type of its condition is not BOOL.
C11_ConditionChecked ==
    \A n \in Nodes :
        (Visited(n) /\ tree[n].kind \in {"Conditional", "WhileLoop"})
            => (ConditionDiagnostics(n) # {} <=> ConditionType(n) # BOOL)

\* the return-type diagnostics of a Return node
ReturnDiagnostics(n) == Diagnostics(n, {"Return type mismatch"})

\* the declared return type of the function a node lies in
DeclaredReturnType(n) == tree[EnclosingFunction(n)].type

\* the return-type diagnostics the rule asks for
ReturnDiagnosticsDue(n) ==
    IF tree[n].kids = <<>>
    THEN IF DeclaredReturnType(n) # VOID THEN 1 ELSE 0
    ELSE LET value == GET_INFERRED_TYPE(Kid(n, 1))
         IN  IF value # VOID /\ value # DeclaredReturnType(n) THEN 1 ELSE 0

\* C12: a Return without a value in a non-VOID function gets one return-type
\* diagnostic; with a value of inferred type VOID none; with a value whose
\* inferred type is not VOID and differs from the declared return type of the
\* enclosing function exactly one; otherwise none.
C12_ReturnChecked ==
    \A n \in Nodes :
        (Visited(n) /\ tree[n].kind = "Return")
            => Cardinality(ReturnDiagnostics(n)) = ReturnDiagnosticsDue(n)

\* an indexed Location whose index is not a Literal node
NonLiteralIndexed(n) ==
    /\ tree[n].kind = "Location"
    /\ tree[n].kids # <<>>
    /\ tree[Kid(n, 1)].kind # "Literal"

\* C13: an indexed Location whose index is not an integer literal never gets
\* an array-access diagnostic, whatever the index node holds.
C13_NonLiteralIndexUnchecked ==
    \A n \in Nodes :
        (Visited(n) /\ NonLiteralIndexed(n)) => IndexDiagnostics(n) = {}

\* the diagnostics that carry the name and the line of declaration n
DeclarationDiagnostics(n) ==
    { i \in DOMAIN errors :
        /\ errors[i].name = tree[n].name
        /\ errors[i].line = tree[n].source_line }

\* C14: every VarDecl of declared type VOID gets at least one diagnostic that
\* carries its name and its source line.
C14_VoidVariableReported ==
    \A n \in Nodes :
        (tree[n].kind = "VarDecl" /\ tree[n].type = VOID)
            => DeclarationDiagnostics(n) # {}

\* a VOID variable that is declared once, reported as "Void variable"
C14_Witness ==
    \E n \in Nodes :
        /\ tree[n].kind = "VarDecl"
        /\ tree[n].type = VOID
        /\ Visited(n)
        /\ \E i \in DeclarationDiagnostics(n) :
              errors[i].msg = "Void variable" /\ errors[i].node = n
        /\ Messages("Duplicate symbol") = {}

\* the "Invalid binary operation" diagnostics of a BinaryOp
BinaryDiagnostics(n) == Diagnostics(n, {"Invalid binary operation"})

\* the operand types for which the rule asks for a diagnostic
BinaryDiagnosticDue(n) ==
    LET op == tree[n].operator
        l == GET_INFERRED_TYPE(Kid(n, 1))
        r == GET_INFERRED_TYPE(Kid(n, 2))
    IN  IF op \in {"OROP", "ANDOP"} THEN ~(l = BOOL /\ r = BOOL)
        ELSE IF op \in {"EQOP", "NEQOP"} THEN l # r
        ELSE ~(l = INT /\ r = INT)

\* C16: a BinaryOp gets an "Invalid binary operation" diagnostic exactly when
\* it is and/or without two BOOL operands, eq/neq with operands of different
\* types, or relational/arithmetic without two INT operands.
C16_BinaryOpChecked ==
    \A n \in Nodes :
        (Visited(n) /\ tree[n].kind = "BinaryOp")
            => Cardinality(BinaryDiagnostics(n))
                  = IF BinaryDiagnosticDue(n) THEN 1 ELSE 0

\* an equality of two BOOL operands passes and some BinaryOp is reported
C16_Witness ==
    \E n \in Nodes :
        /\ Visited(n)
        /\ tree[n].kind = "BinaryOp"
        /\ tree[n].operator = "EQOP"
        /\ GET_INFERRED_TYPE(Kid(n, 1)) = BOOL
        /\ GET_INFERRED_TYPE(Kid(n, 2)) = BOOL
        /\ BinaryDiagnostics(n) = {}

\* the inferred type the rule gives a UnaryOp
UnaryType(n) == IF tree[n].operator = NEGOP THEN INT ELSE BOOL

\* C17: a visited UnaryOp has inferred type INT for numeric negation and BOOL
\* for logical negation, and gets an "Invalid unary operation" diagnostic
\* exactly when the inferred type of its operand is another one.
C17_UnaryOpTyped ==
    \A n \in Nodes :
        (Visited(n) /\ tree[n].kind = "UnaryOp")
            => /\ GET_INFERRED_TYPE(n) = UnaryType(n)
               /\ Diagnostics(n, {"Invalid unary operation"}) # {}
                    <=> GET_INFERRED_TYPE(Kid(n, 1)) # UnaryType(n)

\* C18: within one traversal the inferred-type attribute of a node is written
\* at most once.
C18_TypeWrittenOnce == \A n \in DOMAIN writes : writes[n] <= 1

\* C19: when the traversal of a tree completes the context is back in its
\* initial state: global scope, no current function, not in a loop.
C19_ContextRestored ==
    (pc = "done" /\ ~input.null)
        => /\ curr_table = program_table
           /\ current_func = ""
           /\ in_while = FALSE

\* the node on the traversal stack that owns the nearest enclosing table
NearestScope ==
    LET scopes == { i \in DOMAIN stack : tree[stack[i].node].has_table }
    IN  stack[CHOOSE i \in scopes : \A j \in scopes : j <= i].node

\* C20: whenever a callback runs, the active scope is the table of the
\* nearest enclosing Program, FuncDecl or Block of the node being visited.
C20_ActiveScopeIsNearest == Walking => curr_table = NearestScope

C21_ReturnTypedByFunction ==
    \A n \in Nodes :
        (tree[n].kind = "Return" /\ n \in DOMAIN attr)
            => GET_INFERRED_TYPE(n) = DeclaredReturnType(n)

\* a FuncCall with an argument, to a resolved function with a parameter
CallChecked(n) ==
    /\ tree[n].kind = "FuncCall"
    /\ tree[n].kids # <<>>
    /\ Resolved(n) # NULL
    /\ Resolved(n).symbol_type = "FUNCTION"
    /\ Resolved(n).parameters # <<>>

ArgumentDiagnostics(n) == Diagnostics(n, {"Invalid argument type"})

\* C22: a FuncCall with an argument to a resolved function with a parameter
\* gets an "Invalid argument type" diagnostic if and only if the inferred
\* type of the first argument differs from the type of the first parameter;
\* the number of arguments and the later arguments do not matter.
C22_FirstArgumentChecked ==
    \A n \in Nodes :
        (Visited(n) /\ CallChecked(n))
            => Cardinality(ArgumentDiagnostics(n))
                  = IF GET_INFERRED_TYPE(Kid(n, 1))
                          # Resolved(n).parameters[1].type
                    THEN 1 ELSE 0

\* a call with more arguments than parameters, the later one of another
\* type, passes on its first argument
C22_Witness ==
    \E n \in Nodes :
        /\ Visited(n)
        /\ CallChecked(n)
        /\ Len(tree[n].kids) > Len(Resolved(n).parameters)
        /\ GET_INFERRED_TYPE(Kid(n, 1)) = Resolved(n).parameters[1].type
        /\ GET_INFERRED_TYPE(Kid(n, 2)) # GET_INFERRED_TYPE(Kid(n, 1))
        /\ ArgumentDiagnostics(n) = {}

====
